---- MODULE Spec2Model ----
(***************************************************************************)
(* Model of the Kafka learning demo: the configuration switcher            *)
(* (config.py), the producer HTTP service (producer.py), the consumer CLI  *)
(* loop (consumer.py) and the connection diagnostic (diagnose_kafka.py).   *)
(*                                                                         *)
(* The three programs are separate processes, so each has its own          *)
(* specification over the shared variable tuple: SpecProducer,             *)
(* SpecConsumer and SpecDiagnose.  The broker client library is the        *)
(* environment: every call into it is modelled with the outcomes the       *)
(* library can produce (a return value or a raised exception).             *)
(*                                                                         *)
(* Python strings whose characters matter (the KAFKA_ENV selector, because *)
(* of str.lower()) are sequences of one-character strings; other strings   *)
(* are TLA+ strings.  Python values that may be None are tagged records.   *)
(***************************************************************************)
EXTENDS Integers, Sequences, FiniteSets, TLC

\* ------------------------------------------------------------------------
\* Bounds of the model
\* ------------------------------------------------------------------------
\* number of /produce requests the service handles (concurrently)
MaxRequests == 2

\* number of polls the consumer loop issues before the model stops it
MaxPolls == 3

\* ------------------------------------------------------------------------
\* Python values
\* ------------------------------------------------------------------------
PyNone == [t |-> "None"]

\* a name that is not bound yet
Unset == [unset |-> TRUE]

PyStr(s) == [t |-> "str", v |-> s]

\* Truth value of `not x` for x a str or None.
PyNot_NoneOnly(x) == x.t = "None"

PyNot(x) == x.t = "None" \/ (x.t = "str" /\ x.v = "")

\* ------------------------------------------------------------------------
\* str.lower() on character sequences
\* ------------------------------------------------------------------------
UpperAlphabet ==
    <<"A","B","C","D","E","F","G","H","I","J","K","L","M",
      "N","O","P","Q","R","S","T","U","V","W","X","Y","Z">>

LowerAlphabet ==
    <<"a","b","c","d","e","f","g","h","i","j","k","l","m",
      "n","o","p","q","r","s","t","u","v","w","x","y","z">>

LowerChar(c) ==
    IF \E i \in 1..26 : UpperAlphabet[i] = c
    THEN LowerAlphabet[CHOOSE i \in 1..26 : UpperAlphabet[i] = c]
    ELSE c

lower(s) == [i \in 1..Len(s) |-> LowerChar(s[i])]

S_local == <<"l","o","c","a","l">>

S_aws == <<"a","w","s">>

\* ------------------------------------------------------------------------
\* The process environment after load_dotenv()
\* ------------------------------------------------------------------------
\* values of KAFKA_ENV tried (the variable may also be unset)
KafkaEnvValues ==
    { S_local, S_aws, <<"A","W","S">>, <<"A","w","s">>,
      <<"L","o","c","a","l">>, <<"p","r","o","d">>, <<>> }

\* values of MSK_BOOTSTRAP_SERVERS tried (the variable may also be unset)
BootstrapValues == { "", "b-1.msk.example:9098" }

\* values of AWS_REGION tried (the variable may also be unset)
RegionValues == { "eu-west-1" }

Optional(k, S) == { <<>> } \cup { k :> v : v \in S }

Environments ==
    { a @@ b @@ c :
        a \in Optional("KAFKA_ENV", KafkaEnvValues),
        b \in Optional("MSK_BOOTSTRAP_SERVERS", BootstrapValues),
        c \in Optional("AWS_REGION", RegionValues) }

VARIABLES
    environ,        \* os.environ of the process
    started,        \* producer.py: module level code has run
    kafka_config,   \* producer.py: module level kafka_config
    producer,       \* producer.py: the shared Producer handle
    rpc,            \* per request: position in produce_message
    args,           \* per request: request.args
    message_data,   \* per request: the envelope built
    response,       \* per request: the HTTP response returned
    calls,          \* per request: calls made into the transport
    delivery,       \* per request: what the transport did with its message
    logged,         \* records logged by delivery_callback
    health,         \* last /health response
    cpc,            \* consumer.py: position in consume_messages
    consumer,       \* consumer.py: the local `consumer` (Unset until bound)
    message_count,  \* consumer.py: the local message_count
    msg,            \* consumer.py: the local msg, the last poll result
    pending,        \* consumer.py: the exception propagating, if any
    output,         \* consumer.py: what has been printed, in order
    polls,          \* consumer.py: calls of consumer.poll so far
    received,       \* consumer.py: the records poll has returned, in order
    closeCalls,     \* consumer.py: calls of consumer.close so far
    exit_status,    \* consumer.py: how consume_messages ended
    dpc,            \* diagnose_kafka.py: position in main
    tcp_outcome,    \* diagnose_kafka.py: what the TCP connect did
    ssl_outcome,    \* diagnose_kafka.py: what the TLS connect did
    ssl_available,  \* diagnose_kafka.py: the local ssl_available
    configs_to_test,    \* diagnose_kafka.py: the local configs_to_test
    next_config,    \* diagnose_kafka.py: position of the for loop in the list
    attempts,       \* diagnose_kafka.py: the calls of test_kafka_config made
    successful_configs, \* diagnose_kafka.py: the local successful_configs
    probe_calls,    \* diagnose_kafka.py: calls of the two socket probes
    report          \* diagnose_kafka.py: the result section printed

producerVars ==
    <<started, kafka_config, producer, rpc, args, message_data, response,
      calls, delivery, logged, health>>

consumerVars ==
    <<cpc, consumer, message_count, msg, pending, output, polls, received,
      closeCalls, exit_status>>

diagnoseVars ==
    <<dpc, tcp_outcome, ssl_outcome, ssl_available, configs_to_test,
      next_config, attempts, successful_configs, probe_calls, report>>

vars == <<environ, producerVars, consumerVars, diagnoseVars>>

\* ------------------------------------------------------------------------
\* config.py
\* ------------------------------------------------------------------------
getenv(k, default) == IF k \in DOMAIN environ THEN environ[k] ELSE default

ENVIRONMENT == getenv("KAFKA_ENV", S_local)

LOCAL_CONFIG ==
    ("bootstrap.servers" :> "localhost:9092") @@
    ("security.protocol" :> "PLAINTEXT") @@
    ("auto.offset.reset" :> "earliest") @@
    ("api.version.request" :> TRUE) @@
    ("api.version.fallback.ms" :> 0) @@
    ("broker.version.fallback" :> "0.10.0.0")

AWS_CONFIG ==
    ("bootstrap.servers" :>
        getenv("MSK_BOOTSTRAP_SERVERS", "your-msk-cluster-endpoint:9092")) @@
    ("security.protocol" :> "SASL_SSL") @@
    ("sasl.mechanism" :> "AWS_MSK_IAM") @@
    ("sasl.aws.region" :> getenv("AWS_REGION", "us-east-1")) @@
    ("auto.offset.reset" :> "earliest")

get_kafka_config == IF lower(ENVIRONMENT) = S_aws THEN AWS_CONFIG ELSE LOCAL_CONFIG

get_environment == ENVIRONMENT

\* ------------------------------------------------------------------------
\* producer.py
\* ------------------------------------------------------------------------
Requests == 1..MaxRequests

Topics == { "payments" }

Bodies == { "hello" }

\* request.args: each of topic and msg is absent, empty or a value
RequestArgs ==
    { a @@ b :
        a \in Optional("topic", {""} \cup Topics),
        b \in Optional("msg", {""} \cup Bodies) }

\* request.args.get(k)
ArgsGet(a, k) == IF k \in DOMAIN a THEN PyStr(a[k]) ELSE PyNone

NoResponse == [status |-> 0]

JsonResponse(status, success) == [status |-> status, success |-> success]

NoCalls == [produce |-> 0, flush |-> 0]

\* module level code, lines 18-19
producer_startup ==
    /\ ~started
    /\ started' = TRUE
    /\ kafka_config' = get_kafka_config
    /\ producer' = [config |-> get_kafka_config, queue |-> {}, closed |-> FALSE]
    /\ UNCHANGED <<environ, rpc, args, message_data, response, calls, delivery,
                   logged, health>>
    /\ UNCHANGED <<consumerVars, diagnoseVars>>

\* delivery_callback(err, msg): logs, never raises, tells nobody
delivery_callback(err, r) ==
    IF err THEN [level |-> "error", req |-> r] ELSE [level |-> "info", req |-> r]

\* produce_message, lines 43-70: read and validate the parameters, build the
\* envelope
produce_message_validate(r) ==
    /\ started
    /\ rpc[r] = "idle"
    /\ \E a \in RequestArgs :
        LET topic == ArgsGet(a, "topic")
            message == ArgsGet(a, "msg")
        IN  /\ args' = [args EXCEPT ![r] = a]
            /\ IF PyNot(topic) \/ PyNot(message)
               THEN /\ response' = [response EXCEPT ![r] = JsonResponse(400, FALSE)]
                    /\ rpc' = [rpc EXCEPT ![r] = "done"]
                    /\ UNCHANGED message_data
               ELSE /\ message_data' = [message_data EXCEPT ![r] =
                            [message |-> message.v,
                             timestamp |-> "now",
                             environment |-> get_environment]]
                    /\ rpc' = [rpc EXCEPT ![r] = "produce"]
                    /\ UNCHANGED response
    /\ UNCHANGED <<environ, started, kafka_config, producer, calls, delivery,
                   logged, health>>
    /\ UNCHANGED <<consumerVars, diagnoseVars>>

\* produce_message, lines 74-78 and 93-98: producer.produce() either queues
\* the message and returns, or raises (queue full, invalid argument), which
\* the handler turns into a 500
produce_message_produce(r) ==
    /\ rpc[r] = "produce"
    /\ calls' = [calls EXCEPT ![r].produce = @ + 1]
    /\ \/ /\ producer' = [producer EXCEPT !.queue = @ \cup {r}]
          /\ delivery' = [delivery EXCEPT ![r] = "queued"]
          /\ rpc' = [rpc EXCEPT ![r] = "flush"]
          /\ UNCHANGED response
       \/ /\ response' = [response EXCEPT ![r] = JsonResponse(500, FALSE)]
          /\ rpc' = [rpc EXCEPT ![r] = "done"]
          /\ UNCHANGED <<producer, delivery>>
    /\ UNCHANGED <<environ, started, kafka_config, args, message_data, logged,
                   health>>
    /\ UNCHANGED <<consumerVars, diagnoseVars>>

\* produce_message, lines 82-91: producer.flush(timeout=10) serves the
\* delivery reports that arrive within the timeout (for any queued message,
\* each delivered or failed), returns the number still queued, which the
\* handler discards; the handler then answers 200
produce_message_flush(r) ==
    /\ rpc[r] = "flush"
    /\ calls' = [calls EXCEPT ![r].flush = @ + 1]
    /\ \E ok \in SUBSET producer.queue :
       \E failed \in SUBSET (producer.queue \ ok) :
          /\ producer' = [producer EXCEPT !.queue = @ \ (ok \cup failed)]
          /\ delivery' = [q \in Requests |->
                            IF q \in ok THEN "delivered"
                            ELSE IF q \in failed THEN "failed"
                            ELSE delivery[q]]
          /\ logged' = logged
                        \cup { delivery_callback(FALSE, q) : q \in ok }
                        \cup { delivery_callback(TRUE, q) : q \in failed }
    /\ response' = [response EXCEPT ![r] = JsonResponse(200, TRUE)]
    /\ rpc' = [rpc EXCEPT ![r] = "done"]
    /\ UNCHANGED <<environ, started, kafka_config, args, message_data, health>>
    /\ UNCHANGED <<consumerVars, diagnoseVars>>

\* health_check, lines 100-109
health_check ==
    /\ started
    /\ health' = [status |-> "healthy",
                  environment |-> get_environment,
                  kafka_config |-> kafka_config]
    /\ UNCHANGED <<environ, started, kafka_config, producer, rpc, args,
                   message_data, response, calls, delivery, logged>>
    /\ UNCHANGED <<consumerVars, diagnoseVars>>

NoEnvelope == [envelope |-> FALSE]

InitProducer ==
    /\ started = FALSE
    /\ kafka_config = Unset
    /\ producer = Unset
    /\ rpc = [r \in Requests |-> "idle"]
    /\ args = [r \in Requests |-> <<>>]
    /\ message_data = [r \in Requests |-> NoEnvelope]
    /\ response = [r \in Requests |-> NoResponse]
    /\ calls = [r \in Requests |-> NoCalls]
    /\ delivery = [r \in Requests |-> "none"]
    /\ logged = {}
    /\ health = Unset

NextProducer ==
    \/ producer_startup
    \/ \E r \in Requests : produce_message_validate(r)
    \/ \E r \in Requests : produce_message_produce(r)
    \/ \E r \in Requests : produce_message_flush(r)
    \/ health_check

\* ------------------------------------------------------------------------
\* Properties of the producer service and of the configuration resolver
\* ------------------------------------------------------------------------
IsMissingOrEmpty(a, k) == k \notin DOMAIN a \/ a[k] = ""

WellFormed(r) ==
    /\ ~IsMissingOrEmpty(args[r], "topic")
    /\ ~IsMissingOrEmpty(args[r], "msg")

\* C1: a /produce request with non-empty topic and msg whose delivery failed
\* (reported to the delivery callback) or was still unconfirmed when flush
\* returned is answered 500 with success=false, and a 200 answer is given
\* only when the delivery of that request's message was confirmed.
C1_SuccessOnlyWhenDelivered ==
    \A r \in Requests :
        (rpc[r] = "done" /\ WellFormed(r)) =>
            /\ delivery[r] \in {"failed", "queued"} =>
                    response[r] = JsonResponse(500, FALSE)
            /\ response[r].status = 200 => delivery[r] = "delivered"

RejectedState ==
    \A r \in Requests :
        (rpc[r] # "idle" /\ ~WellFormed(r)) =>
            /\ rpc[r] = "done"
            /\ response[r] = JsonResponse(400, FALSE)
            /\ calls[r] = NoCalls

RejectedStep ==
    \A r \in Requests :
        (rpc[r] = "idle" /\ rpc'[r] # "idle" /\ ~WellFormed(r)') =>
            producer' = producer

\* C2: a /produce request whose topic or msg is missing or empty is answered
\* 400 with success=false, makes no produce and no flush call, and leaves the
\* shared producer handle as it was.
C2_RejectedWithoutSend == [] RejectedState /\ [][RejectedStep]_vars

\* C2 witness: a request with an empty msg was rejected while another
\* request's message sits in the producer's queue.
C2_Witness ==
    \E r, q \in Requests :
        /\ rpc[r] = "done"
        /\ "msg" \in DOMAIN args[r] /\ args[r]["msg"] = ""
        /\ ~IsMissingOrEmpty(args[r], "topic")
        /\ response[r].status = 400
        /\ q \in producer.queue

\* the name of the profile a resolved configuration is
ProfileName(cfg) == IF cfg = AWS_CONFIG THEN S_aws ELSE S_local

\* C8: the environment field of every envelope built by /produce, and the
\* environment reported by /health, is the name of the profile the resolver
\* selected.
C8_EnvironmentIsProfileName ==
    /\ \A r \in Requests :
            message_data[r] # NoEnvelope =>
                message_data[r].environment = ProfileName(kafka_config)
    /\ health # Unset => health.environment = ProfileName(health.kafka_config)

\* C9: the configuration the resolver returns never has an empty
\* bootstrap.servers.
C9_BootstrapServersNonEmpty ==
    started => kafka_config["bootstrap.servers"] # ""

\* ------------------------------------------------------------------------
\* consumer.py
\* ------------------------------------------------------------------------
\* parsed JSON values
JStr(x) == [t |-> "str", v |-> x]

JInt(n) == [t |-> "int", v |-> n]

JList(x) == [t |-> "list", v |-> x]

JDict(f) == [t |-> "dict", v |-> f]

\* the result of a call: a value, or an exception raised
Ok(x) == [exc |-> "none", v |-> x]

Raise(e) == [exc |-> e]

\* texts of the payloads a record may carry
EnvelopeText ==
    "{\"message\": \"hello\", \"timestamp\": \"now\", \"environment\": \"local\"}"

PayloadTexts ==
    { EnvelopeText, "{\"message\": \"hello\"}", "{}", "[1, 2]", "42", "null",
      "\"hello\"", "plain text" }

\* msg.value(): UTF-8 bytes of a text, bytes that are not UTF-8, or None
Bytes(text) == [t |-> "bytes", utf8 |-> TRUE, text |-> text]

NotUtf8Bytes == [t |-> "bytes", utf8 |-> FALSE, text |-> "\\xff\\xfe"]

Payloads == { Bytes(x) : x \in PayloadTexts } \cup { NotUtf8Bytes, PyNone }

\* what consumer.poll(timeout=1.0) returns: None, a message carrying an error
\* (the partition-end marker or a transport error), or a record
Record(payload) == [t |-> "Message", error |-> "none", value |-> payload]

ErrorMessage(code) == [t |-> "Message", error |-> code, value |-> PyNone]

PollResults ==
    { PyNone, ErrorMessage("_PARTITION_EOF"), ErrorMessage("_TRANSPORT") }
    \cup { Record(b) : b \in Payloads }

\* msg.value().decode('utf-8')
bytes_decode(b) ==
    IF b.t = "None" THEN Raise("AttributeError")
    ELSE IF ~b.utf8 THEN Raise("UnicodeDecodeError")
    ELSE Ok(b.text)

\* json.loads(text)
json_loads(text) ==
    CASE text = EnvelopeText ->
            Ok(JDict([message |-> JStr("hello"), timestamp |-> JStr("now"),
                      environment |-> JStr("local")]))
      [] text = "{\"message\": \"hello\"}" -> Ok(JDict([message |-> JStr("hello")]))
      [] text = "{}" -> Ok(JDict(<<>>))
      [] text = "[1, 2]" -> Ok(JList(<<JInt(1), JInt(2)>>))
      [] text = "42" -> Ok(JInt(42))
      [] text = "null" -> Ok(PyNone)
      [] text = "\"hello\"" -> Ok(JStr("hello"))
      [] OTHER -> Raise("JSONDecodeError")

\* message_data.get(k, default)
dict_get(d, k, default) == IF k \in DOMAIN d.v THEN d.v[k] ELSE default

\* `except json.JSONDecodeError` takes JSONDecodeError and nothing else
IsJSONDecodeError(e) == e = "JSONDecodeError"

\* lines 73-82: the body of the inner try statement for record m, message
\* number n: what it prints and the exception it raises, if any.  The four
\* header lines (number, topic, partition, offset) are printed before the
\* first message_data.get.
RenderJson(m, n) ==
    LET decoded == bytes_decode(m.value)
    IN  IF decoded.exc # "none" THEN [exc |-> decoded.exc, out |-> <<>>]
        ELSE
        LET loaded == json_loads(decoded.v)
        IN  IF loaded.exc # "none" THEN [exc |-> loaded.exc, out |-> <<>>]
            ELSE IF loaded.v.t # "dict"
            THEN [exc |-> "AttributeError",
                  out |-> <<[number |-> n, mode |-> "header"]>>]
            ELSE [exc |-> "none",
                  out |-> <<[number |-> n, mode |-> "json",
                             timestamp |-> dict_get(loaded.v, "timestamp", JStr("N/A")),
                             environment |-> dict_get(loaded.v, "environment", JStr("N/A")),
                             content |-> dict_get(loaded.v, "message", JStr("N/A"))]>>]

\* lines 85-92: the JSONDecodeError handler prints the payload as text
RenderRaw(m, n) ==
    LET decoded == bytes_decode(m.value)
    IN  IF decoded.exc # "none"
        THEN [exc |-> decoded.exc, out |-> <<[number |-> n, mode |-> "header"]>>]
        ELSE [exc |-> "none",
              out |-> <<[number |-> n, mode |-> "raw", content |-> decoded.v]>>]

\* lines 73-92: the inner try statement with its JSONDecodeError handler
Render(m, n) ==
    LET body == RenderJson(m, n)
    IN  IF body.exc # "none" /\ IsJSONDecodeError(body.exc)
        THEN LET handler == RenderRaw(m, n)
             IN  [exc |-> handler.exc, out |-> body.out \o handler.out]
        ELSE body

\* lines 27-34
consumer_config ==
    ("group.id" :> "kafka-learn-consumer-group") @@
    ("enable.auto.commit" :> TRUE) @@
    ("auto.commit.interval.ms" :> 1000) @@
    ("session.timeout.ms" :> 30000) @@
    ("max.poll.interval.ms" :> 300000) @@
    get_kafka_config

\* lines 22-37: Consumer(consumer_config) returns the handle or raises
consume_create ==
    /\ cpc = "start"
    /\ \/ /\ consumer' = [config |-> consumer_config, subscribed |-> FALSE,
                          closed |-> FALSE]
          /\ cpc' = "created"
          /\ UNCHANGED pending
       \/ /\ pending' = "KafkaException"
          /\ cpc' = "except"
          /\ UNCHANGED consumer
    /\ UNCHANGED <<message_count, msg, output, polls, received, closeCalls, exit_status>>
    /\ UNCHANGED <<environ, producerVars, diagnoseVars>>

\* lines 39-51: consumer.subscribe([topic_name]) returns or raises
consume_subscribe ==
    /\ cpc = "created"
    /\ \/ /\ consumer' = [consumer EXCEPT !.subscribed = TRUE]
          /\ message_count' = 0
          /\ cpc' = "poll"
          /\ UNCHANGED pending
       \/ /\ pending' = "KafkaException"
          /\ cpc' = "except"
          /\ UNCHANGED <<consumer, message_count>>
    /\ UNCHANGED <<msg, output, polls, received, closeCalls, exit_status>>
    /\ UNCHANGED <<environ, producerVars, diagnoseVars>>

\* lines 57-69: the poll results the loop passes over: None, and a message
\* carrying an error, be it the partition-end marker or any other
Skipped_EofCounted(m) == m.t = "None" \/ m.error = "_TRANSPORT"

Skipped(m) == m.t = "None" \/ m.error # "none"

\* lines 53-72: one poll; nothing, the partition-end marker and a transport
\* error go back to polling, a record is counted
consume_poll ==
    /\ cpc = "poll"
    /\ polls < MaxPolls
    /\ polls' = polls + 1
    /\ \E m \in PollResults :
        /\ msg' = m
        /\ IF Skipped(m)
           THEN UNCHANGED <<cpc, message_count, received>>
           ELSE /\ message_count' = message_count + 1
                /\ received' = Append(received, m)
                /\ cpc' = "render"
    /\ UNCHANGED <<consumer, pending, output, closeCalls, exit_status>>
    /\ UNCHANGED <<environ, producerVars, diagnoseVars>>

\* lines 73-92: render the record; an exception that no handler of the inner
\* try statement takes reaches `except Exception`
consume_render ==
    /\ cpc = "render"
    /\ LET r == Render(msg, message_count)
       IN  /\ output' = output \o r.out
           /\ IF r.exc = "none"
              THEN cpc' = "poll" /\ UNCHANGED pending
              ELSE cpc' = "except" /\ pending' = r.exc
    /\ UNCHANGED <<consumer, message_count, msg, polls, received, closeCalls, exit_status>>
    /\ UNCHANGED <<environ, producerVars, diagnoseVars>>

\* Ctrl+C while the program is in the outer try statement or in one of its
\* handlers: KeyboardInterrupt is raised where the program is.  Inside the
\* inner try statement (waiting in poll, or rendering a record, of which the
\* header may already be printed) lines 94-96 take it; elsewhere no handler
\* does, as it is not an Exception, and the finally clause runs.
consume_interrupt ==
    /\ cpc \in {"start", "created", "poll", "render", "interrupted", "except"}
    /\ IF cpc \in {"poll", "render"}
       THEN /\ cpc' = "interrupted"
            /\ UNCHANGED pending
            /\ \/ UNCHANGED output
               \/ /\ cpc = "render"
                  /\ output' = Append(output, [number |-> message_count,
                                               mode |-> "header"])
       ELSE /\ cpc' = "finally"
            /\ pending' = "KeyboardInterrupt"
            /\ UNCHANGED output
    /\ UNCHANGED <<consumer, message_count, msg, polls, received, closeCalls, exit_status>>
    /\ UNCHANGED <<environ, producerVars, diagnoseVars>>

\* lines 94-96: the KeyboardInterrupt handler prints the total
consume_stopped ==
    /\ cpc = "interrupted"
    /\ output' = Append(output, [total |-> message_count])
    /\ pending' = "none"
    /\ cpc' = "finally"
    /\ UNCHANGED <<consumer, message_count, msg, polls, received, closeCalls, exit_status>>
    /\ UNCHANGED <<environ, producerVars, diagnoseVars>>

\* lines 98-101: the Exception handler logs, prints and calls sys.exit(1)
consume_except ==
    /\ cpc = "except"
    /\ output' = Append(output, [error |-> pending])
    /\ pending' = "SystemExit"
    /\ cpc' = "finally"
    /\ UNCHANGED <<consumer, message_count, msg, polls, received, closeCalls, exit_status>>
    /\ UNCHANGED <<environ, producerVars, diagnoseVars>>

\* line 105: 'consumer' in locals()
consumer_in_locals_IfSubscribed == consumer # Unset /\ consumer.subscribed

consumer_in_locals == consumer # Unset

\* lines 103-107: the finally clause closes the handle if the name is bound;
\* the function then returns or the pending exception goes on
consume_finally ==
    /\ cpc = "finally"
    /\ IF consumer_in_locals
       THEN /\ closeCalls' = closeCalls + 1
            /\ consumer' = [consumer EXCEPT !.closed = TRUE]
       ELSE UNCHANGED <<closeCalls, consumer>>
    /\ exit_status' = CASE pending = "none" -> "returned"
                        [] pending = "SystemExit" -> "exit(1)"
                        [] OTHER -> pending
    /\ cpc' = "exited"
    /\ UNCHANGED <<message_count, msg, pending, output, polls, received>>
    /\ UNCHANGED <<environ, producerVars, diagnoseVars>>

InitConsumer ==
    /\ cpc = "start"
    /\ consumer = Unset
    /\ message_count = 0
    /\ msg = PyNone
    /\ pending = "none"
    /\ output = <<>>
    /\ polls = 0
    /\ received = <<>>
    /\ closeCalls = 0
    /\ exit_status = "running"

NextConsumer ==
    \/ consume_create
    \/ consume_subscribe
    \/ consume_poll
    \/ consume_render
    \/ consume_interrupt
    \/ consume_stopped
    \/ consume_except
    \/ consume_finally

\* ------------------------------------------------------------------------
\* Properties of the consumer loop
\* ------------------------------------------------------------------------
InLoop(pc) == pc \in {"poll", "render"}

\* C3: once subscribed, the consumer leaves the polling loop only on an
\* external interrupt, whatever the polls return.
C3_LoopLeftOnlyOnInterrupt ==
    [][(InLoop(cpc) /\ ~InLoop(cpc')) => cpc' = "interrupted"]_vars

NotEnvelope(m) == m.value # Bytes(EnvelopeText)

FallbackStep ==
    (cpc = "render" /\ NotEnvelope(msg)) =>
        /\ cpc' \in {"poll", "interrupted"}
        /\ message_count' = message_count
        /\ cpc' = "poll" =>
            /\ Len(output') = Len(output) + 1
            /\ output'[Len(output')].number = message_count
            /\ output'[Len(output')].mode \in {"raw", "json"}

CountStep ==
    (cpc = "poll" /\ cpc' = "render") => message_count' = message_count + 1

\* C4: a record whose payload is not the expected envelope is rendered
\* through the fallback path without an exception leaving the rendering, is
\* counted exactly once, and the loop goes on polling.
C4_NonEnvelopeRendered == [][FallbackStep /\ CountStep]_vars

\* C5: on every way out of consume_messages the handle, if it was created,
\* has been closed exactly once, and close is never called on a handle that
\* was not created.
C5_ClosedExactlyOnce ==
    /\ closeCalls <= 1
    /\ consumer = Unset => closeCalls = 0
    /\ cpc = "exited" => closeCalls = (IF consumer = Unset THEN 0 ELSE 1)

\* C5 witness: a fault in the polling loop ended the process with status 1
\* and the handle was closed once.
C5_Witness ==
    /\ cpc = "exited"
    /\ exit_status = "exit(1)"
    /\ consumer # Unset /\ consumer.subscribed
    /\ closeCalls = 1

\* the entries of the output that carry a message number, in order
Numbered(out) == SelectSeq(out, LAMBDA e : "number" \in DOMAIN e)

\* the totals printed
Totals(out) == SelectSeq(out, LAMBDA e : "total" \in DOMAIN e)

JsonObjectTexts == { EnvelopeText, "{\"message\": \"hello\"}", "{}" }

\* the rendering e is that of record m
RenderingOf(e, m) ==
    /\ e.mode \in {"raw", "json"}
    /\ e.mode = "raw" => e.content = m.value.text
    /\ e.mode = "json" => m.value.text \in JsonObjectTexts

CountState ==
    /\ message_count = Len(received)
    /\ \A k \in 1..Len(Numbered(output)) : Numbered(output)[k].number = k
    /\ cpc = "poll" =>
        /\ Len(output) = message_count
        /\ \A k \in 1..Len(output) :
                /\ "number" \in DOMAIN output[k]
                /\ RenderingOf(output[k], received[k])
    /\ \A i \in 1..Len(Totals(output)) : Totals(output)[i].total = Len(received)

IsRecord(m) == m.t = "Message" /\ m.error = "none"

CountingStep ==
    (cpc = "poll" /\ polls' = polls + 1) =>
        /\ IsRecord(msg') =>
                /\ message_count' = message_count + 1
                /\ received' = Append(received, msg')
        /\ ~IsRecord(msg') =>
                /\ message_count' = message_count
                /\ received' = received
                /\ output' = output
                /\ cpc' = "poll"

\* C11: the running message count is the number of polls so far that
\* returned a record without an error; polls that return nothing, the
\* partition-end marker or a transport error leave it unchanged; whenever a
\* poll is about to be issued the records returned so far have been rendered
\* in the order returned, the k-th with number k; and the total printed on
\* interrupt is that count.
C11_CountIsRecordsPolled == [] CountState /\ [][CountingStep]_vars

\* C11 witness: three polls of which two returned records, both rendered,
\* and the interrupt printed the total 2.
C11_Witness ==
    /\ polls = 3
    /\ Len(received) = 2
    /\ Len(Numbered(output)) = 2
    /\ Len(Totals(output)) = 1
    /\ Totals(output)[1].total = 2

\* ------------------------------------------------------------------------
\* diagnose_kafka.py
\* ------------------------------------------------------------------------
\* what a socket call did: returned (connect_ex with its error number, 0 for
\* success) or raised
Returned(n) == [raised |-> FALSE, result |-> n]

Raised == [raised |-> TRUE]

\* connect_ex results tried: success, ECONNREFUSED, EAGAIN (the 5 s timeout)
ConnectOutcomes == { Returned(0), Returned(111), Returned(11), Raised }

\* the TLS connect returns or raises
SslOutcomes == { Returned(0), Raised }

\* test_connection, lines 11-21
test_connection_AnyReturn(o) == ~o.raised

test_connection(o) == IF o.raised THEN FALSE ELSE o.result = 0

\* test_ssl_connection, lines 23-38
test_ssl_connection(o) == ~o.raised

\* the call of test_kafka_config that raised, if one did
KafkaOutcomes == { "Producer", "list_topics", "close", "none" }

\* test_kafka_config, lines 40-65: True when no call in the try statement
\* raised
test_kafka_config(o) == o = "none"

PLAINTEXT_current ==
    [name |-> "PLAINTEXT (current)",
     config |-> ("bootstrap.servers" :> "localhost:9092") @@
                ("security.protocol" :> "PLAINTEXT") @@
                ("api.version.request" :> TRUE) @@
                ("api.version.fallback.ms" :> 0) @@
                ("broker.version.fallback" :> "0.10.0.0")]

PLAINTEXT_no_api_version ==
    [name |-> "PLAINTEXT (no API version request)",
     config |-> ("bootstrap.servers" :> "localhost:9092") @@
                ("security.protocol" :> "PLAINTEXT") @@
                ("api.version.request" :> FALSE)]

PLAINTEXT_with_timeout ==
    [name |-> "PLAINTEXT (with timeout)",
     config |-> ("bootstrap.servers" :> "localhost:9092") @@
                ("security.protocol" :> "PLAINTEXT") @@
                ("api.version.request" :> TRUE) @@
                ("api.version.fallback.ms" :> 0) @@
                ("broker.version.fallback" :> "0.10.0.0") @@
                ("socket.timeout.ms" :> 10000) @@
                ("metadata.request.timeout.ms" :> 10000)]

SSL_config ==
    [name |-> "SSL",
     config |-> ("bootstrap.servers" :> "localhost:9092") @@
                ("security.protocol" :> "SSL") @@
                ("api.version.request" :> TRUE) @@
                ("api.version.fallback.ms" :> 0) @@
                ("broker.version.fallback" :> "0.10.0.0")]

\* main, lines 93-137: the list of variants
ConfigsToTest_AlwaysSsl(ssl) ==
    <<PLAINTEXT_current, PLAINTEXT_no_api_version, PLAINTEXT_with_timeout,
      SSL_config>>

ConfigsToTest(ssl) ==
    <<PLAINTEXT_current, PLAINTEXT_no_api_version, PLAINTEXT_with_timeout>>
    \o (IF ssl THEN <<SSL_config>> ELSE <<>>)

\* main, lines 74-81: the TCP probe; the run ends when it fails
main_tcp ==
    /\ dpc = "tcp"
    /\ \E o \in ConnectOutcomes :
        /\ tcp_outcome' = o
        /\ probe_calls' = [probe_calls EXCEPT !.tcp = @ + 1]
        /\ IF test_connection(o)
           THEN dpc' = "ssl" /\ UNCHANGED report
           ELSE dpc' = "done" /\ report' = [failed |-> "TCP connection failed"]
    /\ UNCHANGED <<ssl_outcome, ssl_available, configs_to_test, next_config,
                   attempts, successful_configs>>
    /\ UNCHANGED <<environ, producerVars, consumerVars>>

\* main, lines 83-140: the TLS probe, then the list of variants is built
main_ssl ==
    /\ dpc = "ssl"
    /\ \E o \in SslOutcomes :
        /\ ssl_outcome' = o
        /\ probe_calls' = [probe_calls EXCEPT !.ssl = @ + 1]
        /\ ssl_available' = test_ssl_connection(o)
        /\ configs_to_test' = ConfigsToTest(test_ssl_connection(o))
    /\ successful_configs' = <<>>
    /\ next_config' = 1
    /\ dpc' = "configs"
    /\ UNCHANGED <<tcp_outcome, attempts, report>>
    /\ UNCHANGED <<environ, producerVars, consumerVars>>

\* main, lines 142-144: one iteration of the for loop
main_test_config ==
    /\ dpc = "configs"
    /\ next_config <= Len(configs_to_test)
    /\ \E o \in KafkaOutcomes :
        LET config_test == configs_to_test[next_config]
        IN  /\ attempts' = Append(attempts,
                    [name |-> config_test.name,
                     opened |-> o # "Producer",
                     listed |-> o \notin {"Producer", "list_topics"},
                     result |-> test_kafka_config(o)])
            /\ successful_configs' =
                    IF test_kafka_config(o)
                    THEN Append(successful_configs, config_test)
                    ELSE successful_configs
    /\ next_config' = next_config + 1
    /\ UNCHANGED <<dpc, tcp_outcome, ssl_outcome, ssl_available,
                   configs_to_test, probe_calls, report>>
    /\ UNCHANGED <<environ, producerVars, consumerVars>>

\* main, lines 146-166: the results
main_results ==
    /\ dpc = "configs"
    /\ next_config > Len(configs_to_test)
    /\ report' = IF successful_configs # <<>>
                 THEN [working |-> successful_configs,
                       recommended |-> successful_configs[1].config]
                 ELSE [failed |-> "No working configurations found"]
    /\ dpc' = "done"
    /\ UNCHANGED <<tcp_outcome, ssl_outcome, ssl_available, configs_to_test,
                   next_config, attempts, successful_configs, probe_calls>>
    /\ UNCHANGED <<environ, producerVars, consumerVars>>

InitDiagnose ==
    /\ dpc = "tcp"
    /\ tcp_outcome = Unset
    /\ ssl_outcome = Unset
    /\ ssl_available = FALSE
    /\ configs_to_test = <<>>
    /\ next_config = 0
    /\ attempts = <<>>
    /\ successful_configs = <<>>
    /\ probe_calls = [tcp |-> 0, ssl |-> 0]
    /\ report = Unset

NextDiagnose ==
    \/ main_tcp
    \/ main_ssl
    \/ main_test_config
    \/ main_results

\* ------------------------------------------------------------------------
\* Properties of the diagnostic run
\* ------------------------------------------------------------------------
Names(seq) == [i \in 1..Len(seq) |-> seq[i].name]

TcpFailed == tcp_outcome # Unset /\ tcp_outcome # Returned(0)

TcpSucceeded == tcp_outcome = Returned(0)

\* C6: when the TCP probe fails (connect returns non-zero or raises), the TLS
\* probe and the configuration variants are not attempted and the run ends
\* with the single TCP failure reported.
C6_TcpFailureEndsRun ==
    TcpFailed =>
        /\ probe_calls.ssl = 0
        /\ attempts = <<>>
        /\ dpc = "done"
        /\ report = [failed |-> "TCP connection failed"]

\* C6 witness: connect_ex returned ECONNREFUSED and the run is over.
C6_Witness == tcp_outcome = Returned(111) /\ dpc = "done"

\* C7: when the TCP probe succeeds every variant of the list is attempted
\* exactly once, in list order, whatever the earlier variants did, and a
\* variant whose handle was opened and whose topic listing was obtained is
\* among the working configurations reported.
C7_ListedVariantsReported ==
    (dpc = "done" /\ TcpSucceeded) =>
        /\ Names(attempts) = Names(configs_to_test)
        /\ \A i \in 1..Len(attempts) :
                (attempts[i].opened /\ attempts[i].listed) =>
                    /\ "working" \in DOMAIN report
                    /\ \E j \in 1..Len(report.working) :
                            report.working[j].name = attempts[i].name

PlaintextNames ==
    <<"PLAINTEXT (current)", "PLAINTEXT (no API version request)",
      "PLAINTEXT (with timeout)">>

ExpectedAttempts ==
    PlaintextNames \o (IF ssl_outcome = Returned(0) THEN <<"SSL">> ELSE <<>>)

\* C10: when the TCP probe succeeds, a failed TLS probe does not end the run,
\* the three plaintext variants are attempted in their order before any SSL
\* variant, and the SSL variant is attempted exactly when the TLS probe
\* succeeded.
C10_SslVariantIffTlsProbe ==
    /\ (TcpSucceeded /\ ssl_outcome # Unset) =>
            /\ Len(attempts) <= Len(ExpectedAttempts)
            /\ Names(attempts) = SubSeq(ExpectedAttempts, 1, Len(attempts))
            /\ dpc = "done" => Names(attempts) = ExpectedAttempts
    /\ (TcpSucceeded /\ dpc = "done") => ssl_outcome # Unset

\* C10 witness: the TLS probe failed and the run went through the three
\* plaintext variants.
C10_Witness ==
    /\ dpc = "done"
    /\ TcpSucceeded
    /\ ssl_outcome = Raised
    /\ Len(attempts) = 3

Init ==
    /\ environ \in Environments
    /\ InitProducer
    /\ InitConsumer
    /\ InitDiagnose

SpecProducer == Init /\ [][NextProducer]_vars

SpecConsumer == Init /\ [][NextConsumer]_vars

SpecDiagnose == Init /\ [][NextDiagnose]_vars

====
